---- MODULE Spec2Model ----
(***************************************************************************)
(* Model of wow-dev-mcp's refreshable dataset resources                    *)
(* (globalStringsByFlavorMap, cachedGlobalsByGameVersion: Resource.auto    *)
(* over a sequential population of all SupportedClientVersions) and of the *)
(* wiki page cache (pageContentCache: Cache.make with capacity, timeToLive *)
(* and a lookup).                                                          *)
(*                                                                         *)
(* Time is counted in hours, the unit of the three durations the          *)
(* repository configures (refresh every 1 h / 3 h, page time-to-live 1 h). *)
(***************************************************************************)
EXTENDS Integers, Sequences, FiniteSets, TLC

(***************************************************************************)
(* Bounds of the model.                                                    *)
(***************************************************************************)
\* population cycles (initial acquire included) a behaviour may start
MaxCycles == 3
\* last hour of the clock in behaviours of the dataset resources
MaxTime == 3
\* last hour of the clock in behaviours of the page cache
MaxClock == 2
\* capacity of pageContentCache in the model (the program's is 3000)
Capacity == 2
\* lookups a behaviour may start
MaxLoads == 4

\* limit of findSimilarGlobals in the model (the program's is 100)
FindSimilarLimit == 3
\* entries searchApiNames returns at most in the model (the program's: 100)
TopResults == 3

\* global strings of one client version and language
MaxStrings == 3
\* DEFAULT_SEARCH_RESULT_LIMIT in the model (the program's is 25)
DEFAULT_SEARCH_RESULT_LIMIT == 2

\* characters of an API name or query token given to wordifyAPI
MaxLen == 5

\* declarations in one remote GlobalStrings file
MaxLines == 2

\* seconds a network fetch is followed for
MaxSeconds == 18

(***************************************************************************)
(* Program constants.                                                      *)
(***************************************************************************)
SupportedClientVersions == <<"mainline", "mists", "vanilla">>

\* Schedule.spaced(Duration.hours(3)) of globalStringsByFlavorMap
GlobalStringsRefreshHours == 3
\* Schedule.spaced(Duration.hours(1)) of cachedGlobalsByGameVersion
GlobalAPIRefreshHours == 1

\* WIKI_PAGE_CACHE_DURATION = Duration.hours(1), the cache's timeToLive
WIKI_PAGE_CACHE_DURATION == 1

Resources == {"globalStringsByFlavorMap", "cachedGlobalsByGameVersion"}

\* request bodies (`pages=...&curonly=...`) used as cache keys: three pages,
\* one more than the capacity, so that capacity pressure happens
PageKeys == 1..3

\* tool calls that use pageContentCache concurrently
Callers == 1..2

\* API names a GlobalAPI.lua file may list
GlobalAPINames == <<"x", "y", "z", "w">>

\* lists of API names parsed from a file of up to four lines, a name possibly
\* on more than one line; names are interchangeable, so the first line has
\* "x" and a name not seen on earlier lines is the next of GlobalAPINames
ApiLists ==
  UNION {{l \in [1..n -> 1..Len(GlobalAPINames)] :
            \A t \in 1..n :
              \/ \E u \in 1..(t - 1) : l[u] = l[t]
              \/ l[t] = Cardinality({l[u] : u \in 1..(t - 1)}) + 1}
         : n \in 0..Len(GlobalAPINames)}

\* the tokens a query may split into: none, one or two sub-queries
SubQueries == 1..2

\* fuzzysort scores in percent (result.score * 100) that a target may get
\* for a query; 0: the target does not match the query at all
Scores == {0, 8, 10, 50}

\* threshold: 0.1 of findSimilarGlobals, in percent
FindSimilarThreshold == 10

\* DEFAULT_SEARCH_THRESHOLD = 0.08, in percent
DEFAULT_SEARCH_THRESHOLD == 8

\* a tool parameter that the caller left out (Schema.UndefinedOr)
Undefined == -1

\* thresholds (in percent) and limits a search_global_strings call may pass
Thresholds == {Undefined, 0, 8, 10, 50, 100}

Limits == {Undefined} \cup 0..MaxStrings

\* Strings are sequences of characters.
Upper == <<"A", "B", "C", "D", "E", "F", "G", "H", "I", "J", "K", "L", "M",
           "N", "O", "P", "Q", "R", "S", "T", "U", "V", "W", "X", "Y", "Z">>

Lower == <<"a", "b", "c", "d", "e", "f", "g", "h", "i", "j", "k", "l", "m",
           "n", "o", "p", "q", "r", "s", "t", "u", "v", "w", "x", "y", "z">>

\* the characters the names given to wordifyAPI are made of in the model
Alphabet == {"A", "b", "_", ".", " "}

\* an API name with a namespace, as GlobalAPI.lua lists them
ExampleName ==
  <<"C", "_", "Q", "u", "e", "s", "t", "L", "o", "g", ".", "I", "s", "Q",
    "u", "e", "s", "t", "F", "l", "a", "g", "g", "e", "d", "C", "o", "m",
    "p", "l", "e", "t", "e", "d">>

Names ==
  {ExampleName} \cup UNION {[1..n -> Alphabet] : n \in 0..MaxLen}

\* the queries given to searchApiNames in the model: five without a
\* sub-query, two with one and one with two
Queries ==
  {<<>>, <<" ">>, <<"|">>, <<"-">>, <<" ", "|", "-">>,
   <<"a">>, <<"-", "a", " ">>,
   <<"a", " ", "|", "-", "a", "a">>}

Partitions == {SupportedClientVersions[i] : i \in 1..Len(SupportedClientVersions)}

VARIABLES
  resource,     \* which of the two dataset resources this behaviour follows
  now,          \* clock, in hours
  scopedRef,    \* the Exit the Resource's ScopedRef holds (what readers get)
  fiber,        \* "acquiring" | "sleeping" | "refreshing" | "failed"
  pos,          \* index into SupportedClientVersions of the next fetch
  acc,          \* the record a population is filling (apiGlobals / final)
  cycle,        \* number of populations started so far
  active,       \* populations started and not yet finished
  wakeAt,       \* hour at which the schedule's sleep ends
  lastRead,     \* what the latest Resource.get returned
  everReadOk,   \* some Resource.get has succeeded
  outcome,      \* history: per cycle "none" | "running" | "ok" | "fail"
  beforeCycle,  \* history: scopedRef when the current/last cycle started
  committed,    \* history: every Exit that was ever stored in the ScopedRef
  failedAt,     \* history: pos at which the last failed cycle failed (0: none)
  startedAt,    \* history: hour at which the current/last cycle started
  map,          \* cacheState.map: page key -> Absent | Pending | Complete
  keys,         \* cacheState.keys: the KeySet list of MapKey objects, head first
  nextLoad,     \* number of the next lookup (and of its Deferred)
  inflight,     \* lookups that are running
  callers,      \* per caller: idle, or the Deferred its get is awaiting
  lastGet,      \* history: what the latest get found and how it was answered
  recency,      \* history: page keys by last access, most recent last
  query,            \* searchApiNames: the query given
  availableGlobals, \* searchApiNames: the API names of the game version
  queryResults,     \* searchApiNames: one ranked list per sub-query
  finalResults,     \* searchApiNames: the merged list
  seenResults,      \* searchApiNames: the names merged so far
  rankPos,          \* searchApiNames: i, the rank position of the outer loop
  listPos,          \* searchApiNames: position in queryResults of the inner loop
  mergePc,          \* "idle" | "ranking" | "merging" | "done"
  returned,         \* what searchApiNames returned
  targetScores,     \* search: per fuzzy search target, the query's score
  lastSearch,       \* search: threshold, limit and results of the latest call
  prevSearch,       \* history: threshold, limit, result count of the call before
  name,             \* wordifyAPI: the name given
  wordified,        \* wordifyAPI(name)
  rewordified,      \* wordifyAPI(wordifyAPI(name))
  wordPc,           \* "start" | "once" | "twice": applications so far
  remote,           \* GlobalStrings: per flavor and locale, the remote file
  snapshot,         \* GlobalStrings: what Resource.get gives, per flavor
  response,         \* the latest tool call: its parameters and its answer
  fetch,            \* the network fetch followed: the function that issues it
  elapsed,          \* seconds since the fetch was issued
  attempt,          \* "none" | "requesting" | "waiting" | "succeeded" | "failed"
  waited,           \* seconds the retry schedule has waited since a failure
  pageCall          \* a wiki page tool call: its position and what it read

resVars == <<resource, scopedRef, fiber, pos, acc, cycle, active, wakeAt,
             lastRead, everReadOk, outcome, beforeCycle, committed, failedAt,
             startedAt>>

cacheVars == <<map, keys, nextLoad, inflight, callers, lastGet, recency>>

mergeVars == <<query, availableGlobals, queryResults, finalResults, seenResults,
               rankPos, listPos, mergePc, returned>>

stringVars == <<targetScores, lastSearch, prevSearch>>

wordVars == <<name, wordified, rewordified, wordPc>>

translationVars == <<remote, snapshot, response>>

fetchVars == <<fetch, elapsed, attempt, waited>>

callVars == <<pageCall>>

toolVars == <<translationVars, fetchVars, callVars>>

searchVars == <<mergeVars, stringVars, wordVars, toolVars>>

vars == <<now, resVars, cacheVars, searchVars>>

(***************************************************************************)
(* Exits.  The data of a partition is stamped with the cycle that fetched  *)
(* it, a failure with the cycle that failed.                               *)
(***************************************************************************)
NoData == [p \in {} |-> 0]

ExitSucceed(c, data) == [tag |-> "Success", cycle |-> c, value |-> data]

ExitFail(c) == [tag |-> "Failure", cycle |-> c, value |-> NoData]

Uninitialized == [tag |-> "Uninitialized", cycle |-> 0, value |-> NoData]

NoRead == [exit |-> Uninitialized, partition |-> "none", during |-> "none",
           atCycle |-> 0, pos |-> 0]

RefreshInterval(r) ==
  IF r = "globalStringsByFlavorMap" THEN GlobalStringsRefreshHours
                                    ELSE GlobalAPIRefreshHours

(***************************************************************************)
(* Resource.manual: ScopedRef.fromAcquire(Effect.exit(acquire)) stores the *)
(* Exit of the initial population, success or failure.                     *)
(***************************************************************************)
FromAcquire(exit) == exit

(***************************************************************************)
(* Resource.refresh: ScopedRef.set(ref, acquire.map(Exit.succeed)).  A     *)
(* failing acquire fails the set, which leaves the ref as it was.          *)
(***************************************************************************)
ScopedRefSetStoresExit(ref, exit) == exit

ScopedRefSetStickyFailure(ref, exit) ==
  IF exit.tag = "Success" /\ ref.tag = "Success" THEN exit ELSE ref

ScopedRefSet(ref, exit) ==
  IF exit.tag = "Success" THEN exit ELSE ref

(***************************************************************************)
(* A population writes the partition it fetched into its own fresh record  *)
(* (`const apiGlobals = {}`, `const final = {}`); the published Exit is    *)
(* not touched while the population runs.                                  *)
(***************************************************************************)
PublishedDuringFetchInPlace(ref, p, c) ==
  IF ref.tag = "Success" THEN [ref EXCEPT !.value = (p :> c) @@ ref.value]
                         ELSE ref

PublishedDuringFetch(ref, p, c) == ref

(***************************************************************************)
(* Resource.get: ScopedRef.get(ref).flatMap(identity).  It reads the ref   *)
(* without taking the lock that ScopedRef.set holds during a refresh.      *)
(***************************************************************************)
ResourceGet(ref) == ref

CanReadUnderLock(f) == f \notin {"acquiring", "refreshing"}

CanRead(f) == f # "acquiring"

(***************************************************************************)
(* Effect.schedule(refresh, Schedule.spaced(d)) in one daemon fiber: sleep *)
(* d, run refresh, and only when it has finished sleep again.              *)
(***************************************************************************)
CanStartCycleOnTimer(f, t, w) == f \in {"sleeping", "refreshing"} /\ t >= w

CanStartCycle(f, t, w) == f = "sleeping" /\ t >= w

(***************************************************************************)
(* pageContentCache: the entries of cacheState.map.  The lookup numbered n *)
(* owns Deferred n, and the value (or failure) it produces is stamped with *)
(* n and with the page key the lookup was made for.                        *)
(*                                                                         *)
(* Every entry owns a MapKey object of its own: a Pending entry the one    *)
(* made by the get that missed, a Complete entry a new one made when the   *)
(* lookup ended.  The KeySet list links MapKey objects, and of an object   *)
(* only two things matter: its page key (`current`) and whether it is      *)
(* `live`, i.e. the object of the entry the map holds now for that key.    *)
(* Only a live object is ever passed to trackAccess again; an object whose *)
(* entry was replaced, expired or evicted stays where it is in the list.   *)
(***************************************************************************)
NoExit == [tag |-> "None", load |-> 0, key |-> 0]

Absent == [tag |-> "Absent", deferred |-> 0, exit |-> NoExit,
           loaded |-> 0, timeToLiveMillis |-> 0]

Pending(d) == [tag |-> "Pending", deferred |-> d, exit |-> NoExit,
               loaded |-> 0, timeToLiveMillis |-> 0]

Complete(exit, t, expiry) ==
  [tag |-> "Complete", deferred |-> 0, exit |-> exit,
   loaded |-> t, timeToLiveMillis |-> expiry]

\* the MapKey object of the entry the map holds for page key k
LiveKey(k) == [current |-> k, live |-> TRUE]

\* the entry of page key k was replaced or removed: its object is live no more
Retire(ks, k) ==
  [i \in 1..Len(ks) |->
     IF ks[i] = LiveKey(k) THEN [current |-> k, live |-> FALSE] ELSE ks[i]]

Idle == [state |-> "idle", key |-> 0, deferred |-> 0]

Awaiting(k, d) == [state |-> "awaiting", key |-> k, deferred |-> d]

\* history record of a get: the entry it found for its key ("Absent",
\* "Pending", "Complete"), the age of that entry, how the get was answered
\* ("hit": the stored Exit, "join": an existing Deferred, "lookup": a new
\* lookup) and, for a hit, the Exit returned
NoGet == [key |-> 0, found |-> "none", age |-> 0, via |-> "none",
          result |-> NoExit]

Observed(k, tag, age, via, exit) ==
  [key |-> k, found |-> tag, age |-> age, via |-> via, result |-> exit]

\* one pending entry for the whole map: a get joins whatever lookup runs
MapGetAnyPending(m, k) ==
  IF \E j \in PageKeys : m[j].tag = "Pending"
    THEN m[CHOOSE j \in PageKeys : m[j].tag = "Pending"]
    ELSE m[k]

\* MutableHashMap.get(cacheState.map, k): the entry of page key k alone
MapGet(m, k) == m[k]

\* MutableHashMap.size(cacheState.map)
Size(m) == Cardinality({k \in PageKeys : m[k].tag # "Absent"})

\* the sequence s without its elements equal to x
RECURSIVE Without(_, _)
Without(s, x) ==
  IF s = <<>> THEN <<>>
  ELSE IF Head(s) = x THEN Without(Tail(s), x)
       ELSE <<Head(s)>> \o Without(Tail(s), x)

(***************************************************************************)
(* KeySet.add: a MapKey object that is not the tail is unlinked from where *)
(* it is in the list, if it is in it, and linked in as the new tail.       *)
(***************************************************************************)
KeySetAdd(ks, mk) ==
  IF ks # <<>> /\ ks[Len(ks)] = mk THEN ks ELSE Append(Without(ks, mk), mk)

\* MutableHashMap.remove(cacheState.map, k)
Remove(m, ks, k) ==
  [map |-> [m EXCEPT ![k] = Absent], keys |-> Retire(ks, k)]

(***************************************************************************)
(* The second loop of trackAccess: while the map holds more than capacity  *)
(* entries, KeySet.remove() the head and remove the map entry of its page  *)
(* key, if the map has one.                                                *)
(***************************************************************************)
RECURSIVE Evict(_, _)
Evict(m, ks) ==
  IF Size(m) > Capacity /\ ks # <<>>
    THEN LET h == Head(ks)
             r == Remove(m, Tail(ks), h.current)
         IN IF m[h.current].tag # "Absent" THEN Evict(r.map, r.keys)
                                           ELSE Evict(m, Tail(ks))
    ELSE [map |-> m, keys |-> ks]

\* trackAccess(value.key) for the entry of page key k: record the access,
\* then evict
TrackAccess(m, ks, k) == Evict(m, KeySetAdd(ks, LiveKey(k)))

\* hasExpired: clock.unsafeCurrentTimeMillis() > timeToLiveMillis
HasExpiredInclusive(t, expiry) == t >= expiry

HasExpired(t, expiry) == t > expiry

\* history: the page key k becomes the most recently used one
Touch(rec, k) == Append(Without(rec, k), k)

DatasetInit ==
  /\ resource \in Resources
  /\ now = 0
  /\ scopedRef = Uninitialized
  /\ fiber = "acquiring"
  /\ pos = 1
  /\ acc = NoData
  /\ cycle = 1
  /\ active = 1
  /\ wakeAt = 0
  /\ lastRead = NoRead
  /\ everReadOk = FALSE
  /\ outcome = [c \in 1..MaxCycles |-> IF c = 1 THEN "running" ELSE "none"]
  /\ beforeCycle = Uninitialized
  /\ committed = {}
  /\ failedAt = 0
  /\ startedAt = 0
  /\ map = [k \in PageKeys |-> Absent]
  /\ keys = <<>>
  /\ nextLoad = 1
  /\ inflight = {}
  /\ callers = [c \in Callers |-> Idle]
  /\ lastGet = NoGet
  /\ recency = <<>>

\* no searchApiNames call is under way
NoMerge ==
  /\ query = <<>>
  /\ availableGlobals = <<>>
  /\ queryResults = <<>>
  /\ finalResults = <<>>
  /\ seenResults = {}
  /\ rankPos = 0
  /\ listPos = 1
  /\ mergePc = "idle"
  /\ returned = <<>>

NoSearch == [threshold |-> Undefined, limit |-> Undefined, results |-> <<>>,
             count |-> Undefined]

\* no search_global_strings call was made
NoStringSearch ==
  /\ targetScores = <<>>
  /\ lastSearch = NoSearch
  /\ prevSearch = NoSearch

\* wordifyAPI is not being applied
NoWordify ==
  /\ name = <<>>
  /\ wordified = <<>>
  /\ rewordified = <<>>
  /\ wordPc = "start"

NoResponse == [tool |-> "none", clientVersion |-> "none", globalKeys |-> <<>>,
               exit |-> "none", partition |-> "none", value |-> <<>>]

\* no GlobalStrings file was read and no tool was called
NoTranslations ==
  /\ remote = <<>>
  /\ snapshot = <<>>
  /\ response = NoResponse

\* no network fetch is followed
NoFetch ==
  /\ fetch = "none"
  /\ elapsed = 0
  /\ attempt = "none"
  /\ waited = 0

NoCall == [pc |-> "idle", key |-> 0, found |-> "none", lookups |-> 0,
           content |-> NoExit, links |-> NoExit]

\* no wiki page tool call is followed
NoPageCall == pageCall = NoCall

NoTools == NoTranslations /\ NoFetch /\ NoPageCall

Init == DatasetInit /\ NoMerge /\ NoStringSearch /\ NoWordify /\ NoTools

(***************************************************************************)
(* The end of a population.  The initial one (Resource.manual) stores its  *)
(* Exit and the refresh fiber is forked, starting with a sleep.  A refresh *)
(* goes through ScopedRef.set; when it fails, the failure ends the         *)
(* scheduled effect and with it the daemon fiber.                          *)
(***************************************************************************)
FinishCycle(exit) ==
  /\ scopedRef' = IF fiber = "acquiring" THEN FromAcquire(exit)
                                         ELSE ScopedRefSet(scopedRef, exit)
  /\ committed' = IF fiber = "acquiring" \/ scopedRef' # scopedRef
                    THEN committed \cup {scopedRef'} ELSE committed
  /\ fiber' = IF fiber = "refreshing" /\ exit.tag = "Failure"
                THEN "failed" ELSE "sleeping"
  /\ wakeAt' = now + RefreshInterval(resource)
  /\ outcome' = [outcome EXCEPT ![cycle] =
                   IF exit.tag = "Success" THEN "ok" ELSE "fail"]
  /\ failedAt' = IF exit.tag = "Success" THEN failedAt ELSE pos
  /\ active' = active - 1
  /\ acc' = NoData
  /\ pos' = 1

(***************************************************************************)
(* One partition's fetch succeeds: its data goes into the local record;    *)
(* after the last partition the record is returned and published.          *)
(***************************************************************************)
FetchOk ==
  /\ fiber \in {"acquiring", "refreshing"}
  /\ pos <= Len(SupportedClientVersions)
  /\ LET p == SupportedClientVersions[pos]
         filled == (p :> cycle) @@ acc
     IN IF pos < Len(SupportedClientVersions)
          THEN /\ acc' = filled
               /\ pos' = pos + 1
               /\ scopedRef' = PublishedDuringFetch(scopedRef, p, cycle)
               /\ UNCHANGED <<fiber, wakeAt, outcome, active, committed,
                              failedAt>>
          ELSE FinishCycle(ExitSucceed(cycle, filled))
  /\ UNCHANGED <<resource, now, cycle, lastRead, everReadOk, beforeCycle,
                 startedAt>>
  /\ UNCHANGED cacheVars
  /\ UNCHANGED searchVars

(***************************************************************************)
(* One partition's fetch fails (timeout, body error): the population fails *)
(* as a whole at that partition.                                           *)
(***************************************************************************)
FetchFail ==
  /\ fiber \in {"acquiring", "refreshing"}
  /\ pos <= Len(SupportedClientVersions)
  /\ FinishCycle(ExitFail(cycle))
  /\ UNCHANGED <<resource, now, cycle, lastRead, everReadOk, beforeCycle,
                 startedAt>>
  /\ UNCHANGED cacheVars
  /\ UNCHANGED searchVars

(***************************************************************************)
(* The schedule's sleep is over: the next refresh starts.                  *)
(***************************************************************************)
StartRefresh ==
  /\ CanStartCycle(fiber, now, wakeAt)
  /\ cycle < MaxCycles
  /\ cycle' = cycle + 1
  /\ fiber' = "refreshing"
  /\ pos' = 1
  /\ acc' = NoData
  /\ active' = active + 1
  /\ outcome' = [outcome EXCEPT ![cycle + 1] = "running"]
  /\ beforeCycle' = scopedRef
  /\ startedAt' = now
  /\ UNCHANGED <<resource, now, scopedRef, wakeAt, lastRead, everReadOk,
                 committed, failedAt>>
  /\ UNCHANGED cacheVars
  /\ UNCHANGED searchVars

(***************************************************************************)
(* A handler reads the resource (search, list, get, globalList.get) for    *)
(* one client version.                                                     *)
(***************************************************************************)
Read(p) ==
  /\ CanRead(fiber)
  /\ lastRead' = [exit |-> ResourceGet(scopedRef), partition |-> p,
                  during |-> fiber, atCycle |-> cycle, pos |-> pos]
  /\ everReadOk' = (everReadOk \/ ResourceGet(scopedRef).tag = "Success")
  /\ UNCHANGED <<resource, now, scopedRef, fiber, pos, acc, cycle, active,
                 wakeAt, outcome, beforeCycle, committed, failedAt, startedAt>>
  /\ UNCHANGED cacheVars
  /\ UNCHANGED searchVars

ReadAny == \E p \in Partitions : Read(p)

Tick ==
  /\ now < MaxTime
  /\ now' = now + 1
  /\ UNCHANGED resVars
  /\ UNCHANGED cacheVars
  /\ UNCHANGED searchVars

Next ==
  \/ FetchOk
  \/ FetchFail
  \/ StartRefresh
  \/ ReadAny
  \/ Tick

Spec == Init /\ [][Next]_vars

(***************************************************************************)
(* pageContentCache.get(k) by caller c: Cache.getEither.                   *)
(***************************************************************************)

\* The miss branch: a Pending entry with a new MapKey and Deferred is put in
\* the map, the access is tracked (which evicts), and the lookup starts.
Miss(c, k, m, ks, tag, age) ==
  /\ nextLoad <= MaxLoads
  /\ LET t == TrackAccess([m EXCEPT ![k] = Pending(nextLoad)], ks, k)
     IN /\ map' = t.map
        /\ keys' = t.keys
  /\ inflight' = inflight \cup {[id |-> nextLoad, key |-> k]}
  /\ nextLoad' = nextLoad + 1
  /\ callers' = [callers EXCEPT ![c] = Awaiting(k, nextLoad)]
  /\ lastGet' = Observed(k, tag, age, "lookup", NoExit)

\* cache.get(k) by caller c: what it does to the cache
GetEither(c, k) ==
  /\ LET value == MapGet(map, k)
     IN CASE value.tag = "Absent" ->
               Miss(c, k, map, keys, "Absent", 0)
          [] value.tag = "Pending" ->
               \* resolveMapValue, Pending: track the access, await the Deferred
               LET t == TrackAccess(map, keys, k)
               IN /\ map' = t.map
                  /\ keys' = t.keys
                  /\ callers' = [callers EXCEPT ![c] =
                                    Awaiting(k, value.deferred)]
                  /\ lastGet' = Observed(k, "Pending", 0, "join", NoExit)
                  /\ UNCHANGED <<nextLoad, inflight>>
          [] value.tag = "Complete" ->
               \* resolveMapValue, Complete: track the access; an expired
               \* entry is removed and getEither runs again (a miss), a live
               \* one yields its stored Exit
               LET t == TrackAccess(map, keys, k)
                   r == Remove(t.map, t.keys, k)
               IN IF HasExpired(now, value.timeToLiveMillis)
                    THEN Miss(c, k, r.map, r.keys,
                              "Complete", now - value.loaded)
                    ELSE /\ map' = t.map
                         /\ keys' = t.keys
                         /\ lastGet' = Observed(k, "Complete",
                                                now - value.loaded, "hit",
                                                value.exit)
                         /\ UNCHANGED <<nextLoad, inflight, callers>>
  /\ recency' = Touch(recency, k)

\* Callers and page keys are interchangeable names: the next get is issued
\* by the idle caller with the smallest number, and a page key that was
\* never requested before is the smallest such key.
Get(c, k) ==
  /\ callers[c].state = "idle"
  /\ \A d \in Callers : d < c => callers[d].state # "idle"
  /\ k <= Len(recency) + 1
  /\ GetEither(c, k)
  /\ UNCHANGED now
  /\ UNCHANGED resVars
  /\ UNCHANGED searchVars

GetAny == \E c \in Callers, k \in PageKeys : Get(c, k)

(***************************************************************************)
(* lookupValueOf: the lookup of l ends with a value or a failure.  Its     *)
(* Exit is stored as a Complete entry under a new MapKey, valid for        *)
(* timeToLive from now, and the Deferred is completed with it, which       *)
(* resumes every caller awaiting it.                                       *)
(***************************************************************************)
LookupEnds(l, tag) ==
  /\ l \in inflight
  /\ LET exit == [tag |-> tag, load |-> l.id, key |-> l.key]
     IN /\ map' = [map EXCEPT ![l.key] =
                     Complete(exit, now, now + WIKI_PAGE_CACHE_DURATION)]
        /\ keys' = Retire(keys, l.key)
        /\ callers' = [c \in Callers |->
                         IF callers[c].state = "awaiting"
                            /\ callers[c].deferred = l.id
                           THEN Idle
                           ELSE callers[c]]
  /\ inflight' = inflight \ {l}
  /\ UNCHANGED <<nextLoad, lastGet, recency>>

LoadDone(l, tag) ==
  /\ LookupEnds(l, tag)
  /\ UNCHANGED now
  /\ UNCHANGED resVars
  /\ UNCHANGED searchVars

LoadSucceeds == \E l \in inflight : LoadDone(l, "Success")

LoadFails == \E l \in inflight : LoadDone(l, "Failure")

CacheTick ==
  /\ now < MaxClock
  /\ now' = now + 1
  /\ UNCHANGED resVars
  /\ UNCHANGED cacheVars
  /\ UNCHANGED searchVars

CacheNext ==
  \/ GetAny
  \/ LoadSucceeds
  \/ LoadFails
  \/ CacheTick

\* the page cache is built next to cachedGlobalsByGameVersion
CacheInit == Init /\ resource = "cachedGlobalsByGameVersion"

CacheSpec == CacheInit /\ [][CacheNext]_vars

(***************************************************************************)
(* One get_warcraft_wiki_page_data or get_warcraft_wiki_global_api_info    *)
(* call: getWikiPageContent and then getLinkedWikiPages, each of them a    *)
(* pageContentCache.get of the same key.  The gets of the call are those   *)
(* of caller 1; the gets of the calls that run beside it are those of the  *)
(* other callers.                                                          *)
(***************************************************************************)
ToolCaller == 1

\* the call has not returned and has not died
Following == pageCall.pc \in {"start", "content", "between", "links"}

\* A get of the call is answered with an Exit.  Effect.orDie ends the call
\* on a failure; a value is the pageContent when it answers the first get
\* and what the linkedPages are made from when it answers the second.
Answered(asked, exit) ==
  IF exit.tag = "Failure" THEN [asked EXCEPT !.pc = "died"]
  ELSE IF asked.pc \in {"start", "content"}
    THEN [asked EXCEPT !.pc = "between", !.content = exit]
    ELSE [asked EXCEPT !.pc = "done", !.links = exit]

\* A get of the call has been made: it is answered from a live entry at
\* once, or the call awaits a Deferred.
Asked(asked, got, awaiting) ==
  LET counted == [asked EXCEPT
                    !.lookups = IF got.via = "lookup" THEN @ + 1 ELSE @]
  IN IF got.via = "hit" THEN Answered(counted, got.result)
     ELSE [counted EXCEPT !.pc = awaiting]

\* wikiService.getWikiPageContent(page, currentRevisionOnly)
GetWikiPageContent ==
  /\ pageCall.pc = "start"
  /\ GetEither(ToolCaller, pageCall.key)
  /\ pageCall' = Asked([pageCall EXCEPT !.found = lastGet'.found],
                       lastGet', "content")
  /\ UNCHANGED <<now, resVars, mergeVars, stringVars, wordVars,
                 translationVars, fetchVars>>

\* wikiService.getLinkedWikiPages(page, currentRevisionOnly)
GetLinkedWikiPages ==
  /\ pageCall.pc = "between"
  /\ GetEither(ToolCaller, pageCall.key)
  /\ pageCall' = Asked(pageCall, lastGet', "links")
  /\ UNCHANGED <<now, resVars, mergeVars, stringVars, wordVars,
                 translationVars, fetchVars>>

\* a lookup ends; the call goes on when it awaited the lookup's Deferred
PageLookupEnds ==
  /\ Following
  /\ \E l \in inflight, tag \in {"Success", "Failure"} :
       /\ LookupEnds(l, tag)
       /\ pageCall' =
            IF callers[ToolCaller].state = "awaiting"
               /\ callers[ToolCaller].deferred = l.id
              THEN Answered(pageCall,
                            [tag |-> tag, load |-> l.id, key |-> l.key])
              ELSE pageCall
  /\ UNCHANGED <<now, resVars, mergeVars, stringVars, wordVars,
                 translationVars, fetchVars>>

\* a get of another call
OtherGet ==
  /\ Following
  /\ \E c \in Callers \ {ToolCaller}, k \in PageKeys :
       /\ callers[c].state = "idle"
       /\ k <= Len(recency) + 1
       /\ GetEither(c, k)
  /\ UNCHANGED <<now, resVars, mergeVars, stringVars, wordVars,
                 translationVars, fetchVars, callVars>>

PageCallTick ==
  /\ Following
  /\ now < MaxClock
  /\ now' = now + 1
  /\ UNCHANGED <<resVars, cacheVars, searchVars>>

PageCallNext ==
  \/ GetWikiPageContent
  \/ GetLinkedWikiPages
  \/ PageLookupEnds
  \/ OtherGet
  \/ PageCallTick

\* a tool call for a page has been made; the cache is empty
PageCallInit ==
  /\ DatasetInit
  /\ resource = "cachedGlobalsByGameVersion"
  /\ NoMerge
  /\ NoStringSearch
  /\ NoWordify
  /\ NoTranslations
  /\ NoFetch
  /\ pageCall = [NoCall EXCEPT !.pc = "start", !.key = 1]

PageCallSpec == PageCallInit /\ [][PageCallNext]_vars

(***************************************************************************)
(* GlobalAPISearchProvider.wordifyAPI.                                     *)
(***************************************************************************)
IsUpper(c) == \E n \in 1..Len(Upper) : Upper[n] = c

\* toLowerCase of one character
LowerOf(c) ==
  IF IsUpper(c) THEN Lower[CHOOSE n \in 1..Len(Upper) : Upper[n] = c] ELSE c

\* the concatenation of the strings parts[1], parts[2], ...
RECURSIVE Join(_)
Join(parts) ==
  IF parts = <<>> THEN <<>> ELSE Head(parts) \o Join(Tail(parts))

\* string.split("."): the pieces between the dots
RECURSIVE Pieces(_)
Pieces(string) ==
  IF \A p \in 1..Len(string) : string[p] # "."
    THEN <<string>>
    ELSE LET d == CHOOSE p \in 1..Len(string) :
                    /\ string[p] = "."
                    /\ \A q \in 1..(p - 1) : string[q] # "."
         IN <<SubSeq(string, 1, d - 1)>>
              \o Pieces(SubSeq(string, d + 1, Len(string)))

\* string.split(".", limit): the first `limit` pieces
Split(string, limit) ==
  LET all == Pieces(string)
  IN SubSeq(all, 1, IF Len(all) < limit THEN Len(all) ELSE limit)

SpaceBeforeEachCapital(string) ==
  Join([p \in 1..Len(string) |->
          IF IsUpper(string[p]) THEN <<" ", string[p]>> ELSE <<string[p]>>])

\* .replace(/([A-Z]+)/g, " $1"): a space before each maximal run of capitals
SpaceBeforeCapitals(string) ==
  Join([p \in 1..Len(string) |->
          IF IsUpper(string[p]) /\ (p = 1 \/ ~IsUpper(string[p - 1]))
            THEN <<" ", string[p]>> ELSE <<string[p]>>])

\* .replace(/[._]/g, " ")
DotsToSpaces(string) ==
  [p \in 1..Len(string) |->
     IF string[p] \in {".", "_"} THEN " " ELSE string[p]]

\* .replace(/\s+/g, " "): of a run of spaces the first one stays
OneSpace(string) ==
  Join([p \in 1..Len(string) |->
          IF string[p] = " " /\ p > 1 /\ string[p - 1] = " "
            THEN <<>> ELSE <<string[p]>>])

\* .trim()
Trim(string) ==
  LET inked == {p \in 1..Len(string) : string[p] # " "}
  IN IF inked = {} THEN <<>>
     ELSE SubSeq(string,
                 CHOOSE p \in inked : \A q \in inked : p <= q,
                 CHOOSE p \in inked : \A q \in inked : q <= p)

\* .toLowerCase()
ToLowerCase(string) == [p \in 1..Len(string) |-> LowerOf(string[p])]

ToWords(string) ==
  ToLowerCase(Trim(OneSpace(DotsToSpaces(SpaceBeforeCapitals(string)))))

HasApiNameAlways(parts) == TRUE

\* apiName is truthy: there is a second piece and it is not empty
HasApiName(parts) == Len(parts) >= 2 /\ parts[2] # <<>>

\* const [namespace, apiName] = name.split(".", 2)
WordifyAPI(string) ==
  LET parts == Split(string, 2)
      namespace == parts[1]
      apiName == IF Len(parts) >= 2 THEN parts[2] ELSE <<>>
  IN IF ~HasApiName(parts)
       THEN ToWords(namespace)
       ELSE namespace \o <<" ">> \o ToWords(apiName)

(***************************************************************************)
(* fuzzysort.go(query, targets, {threshold, limit, key}).  `scores` gives, *)
(* per target, the score of the query against the target's text.           *)
(***************************************************************************)

BelowThresholdFlipped(score, threshold) == score > threshold

\* the target is skipped when its score is strictly below the threshold
BelowThreshold(score, threshold) == score < threshold

\* the targets that match the query and pass the threshold
Passing(scores, threshold) ==
  {t \in DOMAIN scores :
     scores[t] # 0 /\ ~BelowThreshold(scores[t], threshold)}

KeptAll(limit, n) == n

\* limit = options.limit || INFINITY: how many of n results are kept
Kept(limit, n) == IF limit = 0 \/ n < limit THEN n ELSE limit

\* The results: the best Kept targets among the passing ones, best first.
\* Targets of equal score come out in the order the priority queue happens
\* to yield, so every order of them is a possible result.
FuzzysortGo(scores, threshold, limit) ==
  LET passing == Passing(scores, threshold)
      n == Kept(limit, Cardinality(passing))
  IN {s \in [1..n -> passing] :
        /\ \A a, b \in 1..n : a < b =>
              s[a] # s[b] /\ scores[s[a]] >= scores[s[b]]
        /\ \A t \in passing :
              (\A a \in 1..n : s[a] # t) =>
                \A a \in 1..n : scores[t] <= scores[s[a]]}

(***************************************************************************)
(* GlobalAPISearchProvider.searchApiNames.                                 *)
(***************************************************************************)

\* findSimilarGlobals(query, searchObjects): the keys of the results
FindSimilarGlobals(sc, targets) ==
  LET scores == [t \in 1..Len(targets) |-> sc[targets[t]]]
  IN {[j \in DOMAIN s |-> targets[s[j]]] :
        s \in FuzzysortGo(scores, FindSimilarThreshold, FindSimilarLimit)}

\* Math.max(...queryResults.map((results) => results.length)); the maximum
\* of no lengths is -Infinity, below every rank position
MaxLength(lists) ==
  IF lists = <<>> THEN -1
  ELSE CHOOSE n \in {Len(lists[q]) : q \in 1..Len(lists)} :
         \A q \in 1..Len(lists) : Len(lists[q]) <= n

NotSeenNever(seen, key) == TRUE

\* !seenResults.has(key)
NotSeen(seen, key) == key \notin seen

EntryAtFromEnd(results, at) == results[Len(results) - at]

\* results[i], i counted from 0
EntryAt(results, at) == results[at + 1]

SliceFromEnd(list, n) ==
  SubSeq(list, IF Len(list) > n THEN Len(list) - n + 1 ELSE 1, Len(list))

\* list.slice(0, n)
Slice(list, n) == SubSeq(list, 1, IF Len(list) < n THEN Len(list) ELSE n)

\* the characters that separate sub-queries: /[\s|-]/
IsSeparator(char) == char \in {" ", "|", "-"}

\* query.split(/[\s|-]+/): the pieces between the maximal runs of
\* separators, the empty ones before a leading and after a trailing run
\* included
RECURSIVE SplitOnSeparators(_)
SplitOnSeparators(string) ==
  LET seps == {p \in 1..Len(string) : IsSeparator(string[p])}
  IN IF seps = {} THEN <<string>>
     ELSE LET from == CHOOSE p \in seps : \A q \in seps : p <= q
              to == CHOOSE p \in from..Len(string) :
                      /\ \A q \in from..p : q \in seps
                      /\ p + 1 \notin seps
          IN <<SubSeq(string, 1, from - 1)>>
               \o SplitOnSeparators(SubSeq(string, to + 1, Len(string)))

\* .filter((q) => q.trim().length > 0) keeps every piece
NotBlankAlways(piece) == TRUE

\* .filter((q) => q.trim().length > 0)
NotBlank(piece) == Len(Trim(piece)) > 0

\* queries: the sub-queries of a query
SplitQuery(string) == SelectSeq(SplitOnSeparators(string), NotBlank)

\* One sub-query: its token is normalized and ranked against every API
\* name.  sc stands for the token: the score it gives each name's text.
RankQuery ==
  /\ mergePc = "ranking"
  /\ Len(queryResults) < Len(SplitQuery(query))
  /\ \E sc \in [{GlobalAPINames[n] : n \in 1..Len(GlobalAPINames)} -> Scores] :
       \E results \in FindSimilarGlobals(sc, availableGlobals) :
         queryResults' = Append(queryResults, results)
  /\ UNCHANGED <<availableGlobals, finalResults, seenResults, rankPos,
                 listPos, mergePc, returned>>
  /\ UNCHANGED query
  /\ UNCHANGED <<now, resVars, cacheVars, stringVars, wordVars, toolVars>>

\* every sub-query is ranked: the round-robin loops start
StartMerge ==
  /\ mergePc = "ranking"
  /\ Len(queryResults) = Len(SplitQuery(query))
  /\ mergePc' = "merging"
  /\ rankPos' = 0
  /\ listPos' = 1
  /\ UNCHANGED <<availableGlobals, queryResults, finalResults, seenResults,
                 returned>>
  /\ UNCHANGED query
  /\ UNCHANGED <<now, resVars, cacheVars, stringVars, wordVars, toolVars>>

\* one pass of the inner loop: the list at listPos, rank position rankPos
MergeStep ==
  /\ mergePc = "merging"
  /\ rankPos < MaxLength(queryResults)
  /\ LET results == queryResults[listPos]
     IN IF rankPos < Len(results)
           /\ NotSeen(seenResults, EntryAt(results, rankPos))
          THEN /\ finalResults' =
                    Append(finalResults, EntryAt(results, rankPos))
               /\ seenResults' =
                    seenResults \cup {EntryAt(results, rankPos)}
          ELSE UNCHANGED <<finalResults, seenResults>>
  /\ IF listPos < Len(queryResults)
       THEN listPos' = listPos + 1 /\ rankPos' = rankPos
       ELSE listPos' = 1 /\ rankPos' = rankPos + 1
  /\ UNCHANGED <<availableGlobals, queryResults, mergePc, returned>>
  /\ UNCHANGED query
  /\ UNCHANGED <<now, resVars, cacheVars, stringVars, wordVars, toolVars>>

\* the outer loop is over: the first TopResults entries are returned
Return ==
  /\ mergePc = "merging"
  /\ ~(rankPos < MaxLength(queryResults))
  /\ returned' = Slice(finalResults, TopResults)
  /\ mergePc' = "done"
  /\ UNCHANGED <<availableGlobals, queryResults, finalResults, seenResults,
                 rankPos, listPos>>
  /\ UNCHANGED query
  /\ UNCHANGED <<now, resVars, cacheVars, stringVars, wordVars, toolVars>>

MergeNext ==
  \/ RankQuery
  \/ StartMerge
  \/ MergeStep
  \/ Return

\* a searchApiNames call that has read the API names of a game version
MergeInit ==
  /\ DatasetInit
  /\ resource = "cachedGlobalsByGameVersion"
  /\ query \in Queries
  /\ availableGlobals \in
       {[t \in DOMAIN l |-> GlobalAPINames[l[t]]] : l \in ApiLists}
  /\ queryResults = <<>>
  /\ finalResults = <<>>
  /\ seenResults = {}
  /\ rankPos = 0
  /\ listPos = 1
  /\ mergePc = "ranking"
  /\ returned = <<>>
  /\ NoStringSearch
  /\ NoWordify
  /\ NoTools

MergeSpec == MergeInit /\ [][MergeNext]_vars

(***************************************************************************)
(* GlobalStrings search(query, threshold, limit): fuzzysort.go over the    *)
(* targets of one client version and language.  The parameters default to *)
(* DEFAULT_SEARCH_THRESHOLD and DEFAULT_SEARCH_RESULT_LIMIT.               *)
(***************************************************************************)
ThresholdOf(threshold) ==
  IF threshold = Undefined THEN DEFAULT_SEARCH_THRESHOLD ELSE threshold

LimitOf(limit) ==
  IF limit = Undefined THEN DEFAULT_SEARCH_RESULT_LIMIT ELSE limit

\* A target is known by its score alone, so a result (x.obj) is recorded as
\* the score of its target.
Search(threshold, limit) ==
  /\ \E found \in FuzzysortGo(targetScores, ThresholdOf(threshold),
                               LimitOf(limit)) :
       lastSearch' = [threshold |-> threshold, limit |-> limit,
                      results |-> [j \in DOMAIN found |->
                                     targetScores[found[j]]],
                      count |-> Len(found)]
  /\ prevSearch' = [lastSearch EXCEPT !.results = <<>>]
  /\ UNCHANGED targetScores
  /\ UNCHANGED <<now, resVars, cacheVars, mergeVars, wordVars, toolVars>>

\* the first search_global_strings call
SearchFirst ==
  /\ lastSearch = NoSearch
  /\ \E threshold \in Thresholds, limit \in Limits : Search(threshold, limit)

\* the query is searched again with the same limit and any threshold
SearchAgain ==
  /\ lastSearch # NoSearch
  /\ \E threshold \in Thresholds : Search(threshold, lastSearch.limit)

SearchNext ==
  \/ SearchFirst
  \/ SearchAgain

\* Targets are interchangeable and their order decides nothing, so the
\* scores are listed in increasing order.
SearchInit ==
  /\ DatasetInit
  /\ resource = "globalStringsByFlavorMap"
  /\ NoMerge
  /\ targetScores \in
       UNION {{sc \in [1..n -> Scores] :
                 \A a, b \in 1..n : a < b => sc[a] <= sc[b]}
              : n \in 0..MaxStrings}
  /\ lastSearch = NoSearch
  /\ prevSearch = NoSearch
  /\ NoWordify
  /\ NoTools

SearchSpec == SearchInit /\ [][SearchNext]_vars

\* wordifyAPI(name)
Wordify ==
  /\ wordPc = "start"
  /\ wordified' = WordifyAPI(name)
  /\ wordPc' = "once"
  /\ UNCHANGED <<name, rewordified>>
  /\ UNCHANGED <<now, resVars, cacheVars, mergeVars, stringVars, toolVars>>

\* wordifyAPI applied to its own output
WordifyAgain ==
  /\ wordPc = "once"
  /\ rewordified' = WordifyAPI(wordified)
  /\ wordPc' = "twice"
  /\ UNCHANGED <<name, wordified>>
  /\ UNCHANGED <<now, resVars, cacheVars, mergeVars, stringVars, toolVars>>

WordifyNext ==
  \/ Wordify
  \/ WordifyAgain

WordifyInit ==
  /\ DatasetInit
  /\ resource = "cachedGlobalsByGameVersion"
  /\ NoMerge
  /\ NoStringSearch
  /\ name \in Names
  /\ wordified = <<>>
  /\ rewordified = <<>>
  /\ wordPc = "start"
  /\ NoTools

WordifySpec == WordifyInit /\ [][WordifyNext]_vars

(***************************************************************************)
(* GlobalStrings: the translation maps of the client versions and the      *)
(* tools that read them.                                                   *)
(*                                                                         *)
(* A JavaScript object is modelled by its own keys in insertion order      *)
(* (order) and their values (at).  The keys are Lua identifiers, never     *)
(* integer-like, so Object.keys and Object.entries list them in insertion  *)
(* order.  Reading a property that is not an own one falls through to      *)
(* Object.prototype.                                                       *)
(***************************************************************************)
\* the locales of the model, two of the program's ten
SupportedClientLocales == <<"enUS", "deDE">>

Locales ==
  {SupportedClientLocales[i] : i \in 1..Len(SupportedClientLocales)}

TOOL_DEFAULT_CLIENT_VERSION == "mainline"

TOOL_DEFAULT_GAME_VERSION == "mainline"

\* the global string keys the remote files declare in the model
GlobalKeys == {"OKAY", "CANCEL"}

\* a property every plain object inherits
ObjectPrototypeKeys == {"constructor"}

\* the keys a get_string_translations call may ask for (GlobalStringKey is
\* Schema.String: any string is accepted)
GlobalStringKey == GlobalKeys \cup {"NO_SUCH_STRING"} \cup ObjectPrototypeKeys

KeyLists == UNION {[1..n -> GlobalStringKey] : n \in 0..2}

\* a clientVersion that is not given, and one that is not supported
NotGiven == "undefined"

ClientVersionArgs == Partitions \cup {"retail", NotGiven}

\* a remote file: the keys of its declarations, line by line; the value of
\* line n of the file of a flavor and a language is <<flavor, lang, n>>
Files == UNION {[1..n -> GlobalKeys] : n \in 0..MaxLines}

\* the files of the dataset { OKAY: {enUS}, CANCEL: {enUS} }
SeededFiles ==
  [lang \in Locales |-> IF lang = "enUS" THEN <<"OKAY", "CANCEL">> ELSE <<>>]

EmptyObject == [order |-> <<>>, at |-> NoData]

HasOwnProperty(obj, key) == key \in DOMAIN obj.at

\* obj[key] is truthy: the own values are strings that are not empty
\* or objects, the inherited ones functions
Truthy(obj, key) == HasOwnProperty(obj, key) \/ key \in ObjectPrototypeKeys

\* obj[key], when it is truthy
GetProperty(obj, key) ==
  IF HasOwnProperty(obj, key) THEN obj.at[key] ELSE [inherited |-> key]

\* obj[key] = value, with the key moved to the end when it is assigned again
SetPropertyMovingToEnd(obj, key, value) ==
  [order |-> Append(SelectSeq(obj.order, LAMBDA k : k # key), key),
   at |-> [k \in DOMAIN obj.at \cup {key} |->
             IF k = key THEN value ELSE obj.at[k]]]

\* obj[key] = value
SetProperty(obj, key, value) ==
  [order |-> IF HasOwnProperty(obj, key) THEN obj.order
             ELSE Append(obj.order, key),
   at |-> [k \in DOMAIN obj.at \cup {key} |->
             IF k = key THEN value ELSE obj.at[k]]]

ObjectKeys(obj) == obj.order

\* globalStringMapping after the first n lines of a file
RECURSIVE GlobalStringMapping(_, _, _, _)
GlobalStringMapping(flavor, lang, lines, n) ==
  IF n = 0 THEN EmptyObject
  ELSE SetProperty(GlobalStringMapping(flavor, lang, lines, n - 1),
                   lines[n], <<flavor, lang, n>>)

\* the inner loop of the fold, after the first n entries of one language
RECURSIVE FoldEntries(_, _, _, _)
FoldEntries(into, lang, mapping, n) ==
  IF n = 0 THEN into
  ELSE LET prev == FoldEntries(into, lang, mapping, n - 1)
           key == ObjectKeys(mapping)[n]
           translations == IF Truthy(prev, key) THEN GetProperty(prev, key)
                           ELSE EmptyObject
       IN SetProperty(prev, key,
                      SetProperty(translations, lang, mapping.at[key]))

\* the fold, after the first n languages
RECURSIVE FoldLanguages(_, _, _)
FoldLanguages(flavor, files, n) ==
  IF n = 0 THEN EmptyObject
  ELSE LET lang == SupportedClientLocales[n]
           mapping == GlobalStringMapping(flavor, lang, files[lang],
                                          Len(files[lang]))
       IN FoldEntries(FoldLanguages(flavor, files, n - 1), lang, mapping,
                      Len(ObjectKeys(mapping)))

CreateTranslationMapForFlavor(flavor, files) ==
  FoldLanguages(flavor, files, Len(SupportedClientLocales))

\* Schema.Literal(...SupportedClientVersions) accepts anything
ClientVersionParamAny(clientVersion) == TRUE

\* Schema.Literal(...SupportedClientVersions) accepts the value
ClientVersionParam(clientVersion) == clientVersion \in Partitions

\* result after the first n requested keys
RECURSIVE Translations(_, _, _)
Translations(clientGlobals, globalKeys, n) ==
  IF n = 0 THEN EmptyObject
  ELSE LET result == Translations(clientGlobals, globalKeys, n - 1)
           key == globalKeys[n]
       IN IF Truthy(clientGlobals, key)
            THEN SetProperty(result, key, GetProperty(clientGlobals, key))
            ELSE result

\* GlobalAPIListProvider.get(version = TOOL_DEFAULT_GAME_VERSION): the
\* partition it reads
GlobalAPIListGet(version) ==
  IF version = NotGiven THEN TOOL_DEFAULT_GAME_VERSION ELSE version

Called(tool, clientVersion, globalKeys) ==
  [NoResponse EXCEPT !.tool = tool, !.clientVersion = clientVersion,
                     !.globalKeys = globalKeys]

\* the parameters are rejected when they are decoded
ParseError(call) == [call EXCEPT !.exit = "ParseError"]

\* the handler reads a property of globalsByGameVersion[clientVersion],
\* which is undefined
TypeError(call) == [call EXCEPT !.exit = "TypeError"]

Success(call, partition, value) ==
  [call EXCEPT !.exit = "Success", !.partition = partition, !.value = value]

\* the initial population of globalStringsByFlavorMap
Populate ==
  /\ snapshot = <<>>
  /\ snapshot' = [flavor \in Partitions |->
                    CreateTranslationMapForFlavor(flavor, remote[flavor])]
  /\ UNCHANGED <<remote, response>>
  /\ UNCHANGED <<now, resVars, cacheVars, mergeVars, stringVars, wordVars,
                 fetchVars, callVars>>

\* list_wow_global_string_keys
ListGlobalStrings ==
  /\ snapshot # <<>>
  /\ \E clientVersion \in ClientVersionArgs :
       LET call == Called("list_global_strings", clientVersion, <<>>)
       IN response' =
            IF ~ClientVersionParam(clientVersion) THEN ParseError(call)
            ELSE IF clientVersion \notin DOMAIN snapshot THEN TypeError(call)
            ELSE Success(call, clientVersion,
                         ObjectKeys(snapshot[clientVersion]))
  /\ UNCHANGED <<remote, snapshot>>
  /\ UNCHANGED <<now, resVars, cacheVars, mergeVars, stringVars, wordVars,
                 fetchVars, callVars>>

\* get_wow_global_string_translations
GetStringTranslations ==
  /\ snapshot # <<>>
  /\ \E globalKeys \in KeyLists, clientVersion \in ClientVersionArgs :
       LET call == Called("get_string_translations", clientVersion,
                          globalKeys)
       IN response' =
            IF ~ClientVersionParam(clientVersion) THEN ParseError(call)
            ELSE IF clientVersion \notin DOMAIN snapshot
              THEN IF globalKeys = <<>> THEN Success(call, "none", EmptyObject)
                   ELSE TypeError(call)
            ELSE Success(call, clientVersion,
                         Translations(snapshot[clientVersion], globalKeys,
                                      Len(globalKeys)))
  /\ UNCHANGED <<remote, snapshot>>
  /\ UNCHANGED <<now, resVars, cacheVars, mergeVars, stringVars, wordVars,
                 fetchVars, callVars>>

\* list_wow_global_api_names: clientVersion is a ClientVersionParam
ListValidGlobalApis ==
  /\ snapshot # <<>>
  /\ \E clientVersion \in ClientVersionArgs :
       LET call == Called("list_valid_global_apis", clientVersion, <<>>)
           version == GlobalAPIListGet(clientVersion)
       IN response' =
            IF ~ClientVersionParam(clientVersion) THEN ParseError(call)
            ELSE IF version \notin Partitions THEN Success(call, "none", <<>>)
            ELSE Success(call, version, <<>>)
  /\ UNCHANGED <<remote, snapshot>>
  /\ UNCHANGED <<now, resVars, cacheVars, mergeVars, stringVars, wordVars,
                 fetchVars, callVars>>

\* search_wow_global_api_names: clientVersion is
\* Schema.UndefinedOr(ClientVersionParam)
FindGlobalApis ==
  /\ snapshot # <<>>
  /\ \E clientVersion \in ClientVersionArgs :
       LET call == Called("find_global_apis", clientVersion, <<>>)
           version == GlobalAPIListGet(clientVersion)
       IN response' =
            IF clientVersion # NotGiven /\ ~ClientVersionParam(clientVersion)
              THEN ParseError(call)
            ELSE IF version \notin Partitions THEN TypeError(call)
            ELSE Success(call, version, <<>>)
  /\ UNCHANGED <<remote, snapshot>>
  /\ UNCHANGED <<now, resVars, cacheVars, mergeVars, stringVars, wordVars,
                 fetchVars, callVars>>

TranslationNext ==
  \/ Populate
  \/ ListGlobalStrings
  \/ GetStringTranslations
  \/ ListValidGlobalApis
  \/ FindGlobalApis

\* The default flavor has any files; the others have the files of the
\* seeded dataset.
TranslationInit ==
  /\ DatasetInit
  /\ resource = "globalStringsByFlavorMap"
  /\ NoMerge
  /\ NoStringSearch
  /\ NoWordify
  /\ remote \in
       {[flavor \in Partitions |->
           IF flavor = TOOL_DEFAULT_CLIENT_VERSION THEN files
           ELSE SeededFiles]
        : files \in [Locales -> Files]}
  /\ snapshot = <<>>
  /\ response = NoResponse
  /\ NoFetch
  /\ NoPageCall

TranslationSpec == TranslationInit /\ [][TranslationNext]_vars

(***************************************************************************)
(* The network fetches.  Each of the three HttpClients is                  *)
(* filterStatusOk + retry(Schedule.spaced(3 seconds)): a request that ends *)
(* in an error or in a status that is not 2xx is sent again 3 seconds      *)
(* later, any number of times.  What ends the retrying, if anything, is    *)
(* the Effect.timeout around the request.  Time is counted in seconds      *)
(* here.                                                                   *)
(***************************************************************************)
HTTP_REQUEST_TIMEOUT_DURATION == 15

\* Effect.timeout(Duration.seconds(12)) of the pageContentCache lookup
PageLookupTimeout == 12

\* Schedule.spaced(Duration.seconds(3)) of HttpClient.retry
RetrySpacing == 3

\* the fetches of the program, by the function that issues the request
Fetches ==
  {"loadResourceFileContents", "fetchAndParseApiGlobalsByGameVersion",
   "pageContentCache.lookup", "expandMediawikiTemplates"}

\* the request is wrapped in an Effect.timeout
HasTimeout(f) == f # "loadResourceFileContents"

\* the duration of the Effect.timeout around the request
TimeoutOf(f) ==
  IF f = "pageContentCache.lookup" THEN PageLookupTimeout
  ELSE HTTP_REQUEST_TIMEOUT_DURATION

\* the request is out, or the retry schedule is waiting to send it again
Running == attempt \in {"requesting", "waiting"}

\* the remote answers with a 2xx status
AttemptSucceeds ==
  /\ attempt = "requesting"
  /\ attempt' = "succeeded"
  /\ UNCHANGED <<fetch, elapsed, waited>>
  /\ UNCHANGED <<now, resVars, cacheVars, mergeVars, stringVars, wordVars,
                 translationVars, callVars>>

\* the request ends in an error or in a status that is not 2xx
AttemptFails ==
  /\ attempt = "requesting"
  /\ attempt' = "waiting"
  /\ waited' = 0
  /\ UNCHANGED <<fetch, elapsed>>
  /\ UNCHANGED <<now, resVars, cacheVars, mergeVars, stringVars, wordVars,
                 translationVars, callVars>>

\* the retry schedule sends the request again
Retry ==
  /\ attempt = "waiting"
  /\ waited = RetrySpacing
  /\ attempt' = "requesting"
  /\ UNCHANGED <<fetch, elapsed, waited>>
  /\ UNCHANGED <<now, resVars, cacheVars, mergeVars, stringVars, wordVars,
                 translationVars, callVars>>

\* Effect.timeout interrupts the request and fails with a TimeoutException
TimeoutFires ==
  /\ Running
  /\ HasTimeout(fetch)
  /\ elapsed >= TimeoutOf(fetch)
  /\ attempt' = "failed"
  /\ UNCHANGED <<fetch, elapsed, waited>>
  /\ UNCHANGED <<now, resVars, cacheVars, mergeVars, stringVars, wordVars,
                 translationVars, callVars>>

\* a second passes while the fetch runs
FetchTick ==
  /\ Running
  /\ elapsed < MaxSeconds
  /\ HasTimeout(fetch) => elapsed < TimeoutOf(fetch)
  /\ attempt = "waiting" => waited < RetrySpacing
  /\ elapsed' = elapsed + 1
  /\ waited' = IF attempt = "waiting" THEN waited + 1 ELSE waited
  /\ UNCHANGED <<fetch, attempt>>
  /\ UNCHANGED <<now, resVars, cacheVars, mergeVars, stringVars, wordVars,
                 translationVars, callVars>>

FetchNext ==
  \/ AttemptSucceeds
  \/ AttemptFails
  \/ Retry
  \/ TimeoutFires
  \/ FetchTick

\* a fetch has been issued
FetchInit ==
  /\ DatasetInit
  /\ NoMerge
  /\ NoStringSearch
  /\ NoWordify
  /\ NoTranslations
  /\ NoPageCall
  /\ fetch \in Fetches
  /\ resource = IF fetch = "loadResourceFileContents"
                 THEN "globalStringsByFlavorMap"
                 ELSE "cachedGlobalsByGameVersion"
  /\ elapsed = 0
  /\ attempt = "requesting"
  /\ waited = 0

FetchSpec == FetchInit /\ [][FetchNext]_vars

(***************************************************************************)
(* Properties of the dataset resources (checked under Spec).               *)
(***************************************************************************)

\* the latest cycle was a refresh (not the initial population) and it failed
LastRefreshFailed == cycle > 1 /\ outcome[cycle] = "fail"

\* some population had succeeded when the read r was issued
PopulatedBefore(r) ==
  \E c \in 1..r.atCycle :
    /\ outcome[c] = "ok"
    /\ (c < r.atCycle \/ r.during = "sleeping")

\* the Exit e holds data for every partition, all of it from one cycle
OneCycle(e) ==
  /\ DOMAIN e.value = Partitions
  /\ \A p \in Partitions : e.value[p] = e.cycle

\* C3: a failed refresh cycle leaves the snapshot exactly as it was before
\* the cycle, every read issued after it returns that previous snapshot, and
\* no read ever returns the failure of a refresh cycle (a failure a reader
\* gets is the initial population's).
C3_FailedRefreshKeepsSnapshot ==
  /\ LastRefreshFailed =>
       /\ scopedRef = beforeCycle
       /\ ResourceGet(scopedRef) = beforeCycle
       /\ (lastRead.during = "failed" => lastRead.exit = beforeCycle)
  /\ lastRead.exit.tag = "Failure" => lastRead.exit.cycle = 1

C3_Witness ==
  /\ LastRefreshFailed
  /\ failedAt > 1
  /\ lastRead.during = "failed"
  /\ lastRead.exit.tag = "Success"

\* C4: in every reachable state the snapshot readers see holds, for all
\* three partitions, the data of one and the same population cycle, and a
\* cycle in which one partition succeeded and a later one failed changed no
\* partition's data.
C4_SnapshotFromOneCycle ==
  /\ scopedRef.tag = "Success" => OneCycle(scopedRef)
  /\ lastRead.exit.tag = "Success" => OneCycle(lastRead.exit)
  /\ (LastRefreshFailed /\ failedAt > 1) =>
       scopedRef.value = beforeCycle.value

C4_Witness ==
  /\ LastRefreshFailed
  /\ failedAt = Len(SupportedClientVersions)
  /\ scopedRef.tag = "Success"
  /\ scopedRef.cycle < cycle

\* C5: once a read of the resource has succeeded, every later read
\* succeeds, whatever refresh successes and failures follow.
C5_ReadsKeepSucceeding ==
  everReadOk =>
    /\ ResourceGet(scopedRef).tag = "Success"
    /\ lastRead.exit.tag = "Success"

C5_Witness ==
  /\ everReadOk
  /\ outcome[1] = "ok"
  /\ LastRefreshFailed
  /\ lastRead.during = "failed"
  /\ lastRead.atCycle = cycle

\* C6: at most one population cycle of a resource runs at any time, also
\* when a cycle runs for longer than the refresh interval.
C6_NoOverlappingCycles ==
  /\ active <= 1
  /\ (active = 1) = (fiber \in {"acquiring", "refreshing"})

C6_Witness ==
  /\ fiber = "refreshing"
  /\ active = 1
  /\ now - startedAt > RefreshInterval(resource)

\* C7: once the resource exists, a read is possible in every state, also in
\* the middle of a refresh cycle, and what a read issued during a refresh
\* returns is the Exit committed before the cycle, never the record the
\* cycle is building.
C7_ReadDuringRefresh ==
  /\ fiber # "acquiring" => ENABLED ReadAny
  /\ lastRead # NoRead => lastRead.exit \in committed
  /\ (lastRead.during = "refreshing" /\ lastRead.atCycle = cycle) =>
       lastRead.exit = beforeCycle

C7_Witness ==
  /\ fiber = "refreshing"
  /\ lastRead.during = "refreshing"
  /\ lastRead.atCycle = cycle
  /\ lastRead.pos > 1
  /\ lastRead.exit.tag = "Success"

\* C8: when the initial population failed, every read fails as long as no
\* population has succeeded, and from the first later population that
\* succeeds on, reads succeed.
C8_InitialFailureUntilSuccess ==
  outcome[1] = "fail" =>
    /\ (\A c \in 1..MaxCycles : outcome[c] # "ok") =>
         /\ ResourceGet(scopedRef).tag = "Failure"
         /\ (lastRead # NoRead => lastRead.exit.tag = "Failure")
    /\ (\E c \in 1..MaxCycles : outcome[c] = "ok") =>
         ResourceGet(scopedRef).tag = "Success"
    /\ (lastRead # NoRead /\ PopulatedBefore(lastRead)) =>
         lastRead.exit.tag = "Success"

C8_Witness ==
  /\ outcome[1] = "fail"
  /\ outcome[2] = "ok"
  /\ lastRead.atCycle = 2
  /\ lastRead.during = "sleeping"
  /\ lastRead.exit.tag = "Success"

(***************************************************************************)
(* Properties of pageContentCache (checked under CacheSpec).               *)
(***************************************************************************)

\* the lookups of page key k that are running
LoadsOf(k) == {l \in inflight : l.key = k}

InMap(m, k) == m[k].tag # "Absent"

\* the least recently used page key among those that the map m holds
LRUKey(m, rec) ==
  LET held == {i \in 1..Len(rec) : InMap(m, rec[i])}
  IN IF held = {} THEN 0
     ELSE rec[CHOOSE i \in held : \A j \in held : i <= j]

\* C1: concurrent gets on one page key that has no cached entry share one
\* lookup: at no time are two lookups of the same key running, and all
\* callers waiting for a key wait for the same Deferred, so they receive the
\* same Exit.
C1_SingleFlight ==
  /\ \A k \in PageKeys : Cardinality(LoadsOf(k)) <= 1
  /\ \A c, d \in Callers :
       (callers[c].state = "awaiting" /\ callers[d].state = "awaiting"
        /\ callers[c].key = callers[d].key)
         => callers[c].deferred = callers[d].deferred

\* C2: a failed lookup is never cached: no get is answered from the cache,
\* without a new lookup, with a failure.
C2_FailedLoadNotCached ==
  lastGet.via = "hit" => lastGet.result.tag = "Success"

\* C9: a get that finds a Complete entry loaded at time T is answered with
\* the stored Exit, without a lookup, when now - T <= timeToLive, and starts
\* a new lookup when now - T > timeToLive.
C9_TimeToLive ==
  lastGet.found = "Complete" =>
    IF lastGet.age <= WIKI_PAGE_CACHE_DURATION
      THEN lastGet.via = "hit" /\ lastGet.result.tag # "None"
      ELSE lastGet.via = "lookup"

C9_Witness ==
  /\ lastGet.found = "Complete"
  /\ lastGet.age = WIKI_PAGE_CACHE_DURATION + 1
  /\ lastGet.via = "lookup"
  /\ LoadsOf(lastGet.key) # {}

\* C11: single-flight is per page key.  Whoever waits for page key k waits
\* for a lookup made for k, a Pending entry of k refers to a lookup of k, a
\* stored Exit and the Exit a hit returns were produced by a lookup of the
\* key they are filed under, a get that finds no entry for its key starts a
\* lookup of its own whatever else is running, and every running lookup can
\* end without any other lookup ending first.
C11_PerKeyIndependence ==
  /\ \A c \in Callers :
       callers[c].state = "awaiting" =>
         \E l \in LoadsOf(callers[c].key) : l.id = callers[c].deferred
  /\ \A k \in PageKeys :
       /\ map[k].tag = "Pending" =>
            \A l \in inflight : l.id = map[k].deferred => l.key = k
       /\ map[k].tag = "Complete" => map[k].exit.key = k
  /\ lastGet.via = "hit" => lastGet.result.key = lastGet.key
  /\ lastGet.found = "Absent" => lastGet.via = "lookup"
  /\ \A l \in inflight :
       ENABLED LoadDone(l, "Success") /\ ENABLED LoadDone(l, "Failure")

\* the lookup of one page key ended, and a get of that key was answered from
\* the cache, while a lookup of another key that had started earlier is
\* still running
C11_Witness ==
  \E l \in inflight :
    /\ lastGet.via = "hit"
    /\ lastGet.key # l.key
    /\ lastGet.result.load > l.id
    /\ \E c \in Callers : callers[c] = Awaiting(l.key, l.id)

\* C10: the map never holds more than capacity entries, and an entry that a
\* step evicts is the least recently used one.
C10_BoundedLRU ==
  [][/\ Size(map') <= Capacity
     /\ \A j \in PageKeys :
          (InMap(map, j) /\ ~InMap(map', j)) => j = LRUKey(map, recency)]_vars

(***************************************************************************)
(* Properties of searchApiNames (checked under MergeSpec).                 *)
(***************************************************************************)

NoRepeat(list) ==
  \A a, b \in 1..Len(list) : a # b => list[a] # list[b]

\* list without the entries that occur earlier in it
FirstOccurrences(list) ==
  LET first == {a \in 1..Len(list) :
                  \A b \in 1..(a - 1) : list[b] # list[a]}
      nth(j) == CHOOSE a \in first :
                  Cardinality({b \in first : b < a}) = j - 1
  IN [j \in 1..Cardinality(first) |-> list[nth(j)]]

\* the entries of the ranked lists in visiting order: rank position by rank
\* position and, within a rank position, list by list
RECURSIVE Visits(_, _, _)
Visits(lists, at, q) ==
  IF at >= MaxLength(lists) THEN <<>>
  ELSE IF q > Len(lists) THEN Visits(lists, at + 1, 1)
  ELSE IF at < Len(lists[q])
         THEN <<lists[q][at + 1]>> \o Visits(lists, at, q + 1)
         ELSE Visits(lists, at, q + 1)

RoundRobin(lists) == FirstOccurrences(Visits(lists, 0, 1))

IsPrefix(a, b) ==
  /\ Len(a) <= Len(b)
  /\ \A j \in 1..Len(a) : a[j] = b[j]

\* C12: the list searchApiNames builds and the list it returns hold no API
\* name twice, also when the API list names one API on several lines.
C12_NoDuplicateKey ==
  /\ NoRepeat(finalResults)
  /\ NoRepeat(returned)

C12_Witness ==
  /\ mergePc = "done"
  /\ ~NoRepeat(availableGlobals)
  /\ \E q \in 1..Len(queryResults) :
       /\ ~NoRepeat(queryResults[q])
       /\ \E j \in 1..Len(returned) :
            \E a, b \in 1..Len(queryResults[q]) :
              a # b /\ queryResults[q][a] = returned[j]
                    /\ queryResults[q][b] = returned[j]

\* C13: the merged list is the round-robin interleave of the ranked lists:
\* rank position by rank position, within a position list by list, an entry
\* appended when it was not appended before.  Lists [x, y, z] and [y, w]
\* give [x, y, w, z].
C13_RoundRobinMerge ==
  mergePc = "done" =>
    /\ finalResults = RoundRobin(queryResults)
    /\ queryResults = << <<"x", "y", "z">>, <<"y", "w">> >> =>
         finalResults = <<"x", "y", "w", "z">>

C13_Witness ==
  /\ mergePc = "done"
  /\ queryResults = << <<"x", "y", "z">>, <<"y", "w">> >>

\* C14 as claimed: for a query of one token searchApiNames returns the very
\* list findSimilarGlobals returned: same names, same order, same length.
C14_SingleTokenIsRanker ==
  (mergePc = "done" /\ Len(queryResults) = 1) =>
    returned = queryResults[1]

\* C14 amended: for a query of one token searchApiNames returns the list of
\* findSimilarGlobals without the repeats of a name (first occurrence kept,
\* order kept), which is that very list when it holds no name twice.
C14_SingleTokenIsRankerWithoutRepeats ==
  (mergePc = "done" /\ Len(queryResults) = 1) =>
    /\ LET once == FirstOccurrences(queryResults[1])
       IN /\ IsPrefix(returned, once)
          /\ Len(returned) = IF Len(once) < TopResults THEN Len(once)
                                                       ELSE TopResults
    /\ (NoRepeat(queryResults[1]) /\ FindSimilarLimit <= TopResults) =>
         returned = queryResults[1]

C14_Witness ==
  /\ mergePc = "done"
  /\ Len(queryResults) = 1
  /\ ~NoRepeat(queryResults[1])
  /\ returned # <<>>
  /\ Len(returned) < Len(queryResults[1])

\* C15: searchApiNames returns at most TopResults (100) names, and they are
\* the first names of the whole round-robin merge, in its order.
C15_TopOfMerge ==
  /\ Len(returned) <= TopResults
  /\ mergePc = "done" =>
       /\ IsPrefix(returned, RoundRobin(queryResults))
       /\ Len(returned) =
            IF Len(RoundRobin(queryResults)) < TopResults
              THEN Len(RoundRobin(queryResults)) ELSE TopResults

C15_Witness ==
  /\ mergePc = "done"
  /\ Len(queryResults) = Cardinality(SubQueries)
  /\ Len(finalResults) > TopResults
  /\ Len(returned) = TopResults

(***************************************************************************)
(* Properties of the string search (checked under SearchSpec).             *)
(***************************************************************************)

\* the targets whose score is strictly above the threshold of search s
Above(s) == {t \in DOMAIN targetScores :
               targetScores[t] > ThresholdOf(s.threshold)}

\* the results of search s hold every target that scores above its threshold
HoldsAllAbove(s) ==
  \A t \in Above(s) :
    Cardinality({j \in DOMAIN s.results : s.results[j] = targetScores[t]})
      = Cardinality({u \in DOMAIN targetScores :
                       targetScores[u] = targetScores[t]})

\* C16: no result of a search scores at or below the threshold of the
\* search: a target that scores exactly the threshold is left out.
C16_AboveThresholdOnly ==
  \A j \in DOMAIN lastSearch.results :
    lastSearch.results[j] > ThresholdOf(lastSearch.threshold)

\* C17: when a query is searched over the same targets with the same limit
\* and two thresholds, the search with the higher threshold has at most as
\* many results as the one with the lower threshold.
C17_ThresholdMonotone ==
  (prevSearch # NoSearch /\ prevSearch.limit = lastSearch.limit) =>
    /\ ThresholdOf(prevSearch.threshold) < ThresholdOf(lastSearch.threshold)
         => lastSearch.count <= prevSearch.count
    /\ ThresholdOf(lastSearch.threshold) < ThresholdOf(prevSearch.threshold)
         => prevSearch.count <= lastSearch.count

C17_Witness ==
  /\ prevSearch # NoSearch
  /\ prevSearch.limit = lastSearch.limit
  /\ lastSearch.limit > 0
  /\ prevSearch.count = lastSearch.limit
  /\ Cardinality(Above(prevSearch)) > lastSearch.limit
  /\ 0 < ThresholdOf(prevSearch.threshold)
  /\ ThresholdOf(prevSearch.threshold) < ThresholdOf(lastSearch.threshold)
  /\ 0 < lastSearch.count
  /\ lastSearch.count < prevSearch.count

\* C18 as claimed: a limit above 0 truncates the result to limit entries,
\* and with a limit of 0 or no limit given the result holds every target
\* that scores above the threshold.
C18_LimitOrUnbounded ==
  lastSearch # NoSearch =>
    IF lastSearch.limit > 0
      THEN /\ lastSearch.count <= lastSearch.limit
           /\ lastSearch.count < lastSearch.limit => HoldsAllAbove(lastSearch)
      ELSE HoldsAllAbove(lastSearch)

\* C18 amended: a limit above 0 truncates the result to limit entries, a
\* limit of 0 means unbounded (the result holds every target that scores
\* above the threshold), and no limit given means
\* DEFAULT_SEARCH_RESULT_LIMIT.
C18_LimitOrDefault ==
  lastSearch # NoSearch =>
    LET limit == IF lastSearch.limit = Undefined
                   THEN DEFAULT_SEARCH_RESULT_LIMIT ELSE lastSearch.limit
    IN IF limit > 0
         THEN /\ lastSearch.count <= limit
              /\ lastSearch.count < limit => HoldsAllAbove(lastSearch)
         ELSE HoldsAllAbove(lastSearch)

C18_Witness ==
  /\ lastSearch # NoSearch
  /\ lastSearch.limit = Undefined
  /\ lastSearch.count = DEFAULT_SEARCH_RESULT_LIMIT
  /\ Cardinality(Above(lastSearch)) > DEFAULT_SEARCH_RESULT_LIMIT

(***************************************************************************)
(* Properties of wordifyAPI (checked under WordifySpec).                   *)
(***************************************************************************)

\* position of the first "." of string, 0 when it has none
FirstDot(string) ==
  IF \A p \in 1..Len(string) : string[p] # "." THEN 0
  ELSE CHOOSE p \in 1..Len(string) :
         string[p] = "." /\ \A q \in 1..(p - 1) : string[q] # "."

\* the text of string before its first "."
NamespaceOf(string) == SubSeq(string, 1, FirstDot(string) - 1)

\* string has a namespace: a first "." with text right after it
HasNamespace(string) ==
  /\ FirstDot(string) > 0
  /\ FirstDot(string) < Len(string)
  /\ string[FirstDot(string) + 1] # "."

AllLower(string) == \A p \in 1..Len(string) : ~IsUpper(string[p])

\* C19: for a name with a namespace, wordifyAPI gives the namespace in lower
\* case, a space and the words of the rest, all of it in lower case; for
\* C_QuestLog.IsQuestFlaggedCompleted it gives
\* "c_questlog is quest flagged completed".
C19_LowercasedNamespace ==
  (wordPc # "start" /\ HasNamespace(name)) =>
    /\ AllLower(wordified)
    /\ \E rest \in {SubSeq(wordified, p, Len(wordified)) :
                       p \in 1..(Len(wordified) + 1)} :
         wordified = ToLowerCase(NamespaceOf(name)) \o <<" ">> \o rest
    /\ name = ExampleName =>
         wordified =
           <<"c", "_", "q", "u", "e", "s", "t", "l", "o", "g", " ", "i", "s",
             " ", "q", "u", "e", "s", "t", " ", "f", "l", "a", "g", "g", "e",
             "d", " ", "c", "o", "m", "p", "l", "e", "t", "e", "d">>

\* C20 as claimed: wordifyAPI applied to an output of wordifyAPI gives that
\* output again, for every name.
C20_Idempotent ==
  wordPc = "twice" => rewordified = wordified

\* C20 amended: wordifyAPI applied to its output gives that output again for
\* every name without a namespace; for a name with a namespace it does so
\* exactly when the namespace is not empty and is already made of lower-case
\* words (wordifying it alone changes nothing) and the rest has a word.
C20_IdempotentWithoutNamespace ==
  wordPc = "twice" =>
    IF ~HasNamespace(name)
      THEN rewordified = wordified
      ELSE (rewordified = wordified) <=>
             /\ NamespaceOf(name) # <<>>
             /\ ToWords(NamespaceOf(name)) = NamespaceOf(name)
             /\ wordified # NamespaceOf(name) \o <<" ">>

C20_Witness ==
  /\ wordPc = "twice"
  /\ ~HasNamespace(name)
  /\ \E p \in 1..Len(name) : IsUpper(name[p])
  /\ \E p \in 1..Len(name) : name[p] = "_"
  /\ Len(wordified) > Len(name)
  /\ rewordified = wordified

\* the text of string after its first "."
RemainderOf(string) == SubSeq(string, FirstDot(string) + 1, Len(string))

\* C21: wordifyAPI splits a name at its first "." only: the namespace is
\* the text before it and everything after it is the rest, whose words all
\* reach the output, also those after a second "."; a name without "." is
\* all rest.  (Letter case is left aside here.)
C21_SplitAtFirstDot ==
  wordPc # "start" =>
    /\ FirstDot(name) = 0 => wordified = ToWords(name)
    /\ (FirstDot(name) > 0 /\ ToWords(RemainderOf(name)) # <<>>) =>
         ToLowerCase(wordified) =
           ToLowerCase(NamespaceOf(name)) \o <<" ">>
             \o ToWords(RemainderOf(name))

\* The words of a text, told from its characters: the letters in lower
\* case, with one space before a letter that is not the first one when
\* dots, underscores or spaces lie between it and the letter before, or
\* when it is a capital right after a letter that is not a capital.
WordsOf(string) ==
  LET letters == {p \in 1..Len(string) : string[p] \notin {".", "_", " "}}
      boundary(p) ==
        /\ \E q \in letters : q < p
        /\ \/ p - 1 \notin letters
           \/ IsUpper(string[p]) /\ ~IsUpper(string[p - 1])
  IN Join([p \in 1..Len(string) |->
             IF p \notin letters THEN <<>>
             ELSE IF boundary(p) THEN <<" ", LowerOf(string[p])>>
             ELSE <<LowerOf(string[p])>>])

\* C22: in the part that is turned into words, exactly one space comes
\* before each maximal run of capitals and none inside the run.
C22_OneSpacePerCapitalRun ==
  wordPc # "start" =>
    /\ FirstDot(name) = 0 => wordified = WordsOf(name)
    /\ HasNamespace(name) =>
         wordified =
           NamespaceOf(name) \o <<" ">> \o WordsOf(Split(name, 2)[2])

C22_Witness ==
  /\ wordPc # "start"
  /\ FirstDot(name) = 0
  /\ \E p \in 2..(Len(name) - 2) :
       /\ ~IsUpper(name[p - 1]) /\ name[p - 1] \notin {".", "_", " "}
       /\ IsUpper(name[p]) /\ IsUpper(name[p + 1])
       /\ ~IsUpper(name[p + 2]) /\ name[p + 2] \notin {".", "_", " "}
  /\ Len(wordified) = Len(name) + 1

(***************************************************************************)
(* Properties of the GlobalStrings tools (checked under TranslationSpec).  *)
(***************************************************************************)
\* the requested keys that the snapshot of the requested flavor declares
PresentKeys ==
  {response.globalKeys[n] : n \in DOMAIN response.globalKeys}
    \cap DOMAIN snapshot[response.partition].at

\* C23: get_wow_global_string_translations answers with a record whose keys
\* are exactly the requested keys that the snapshot of the requested client
\* version holds, each with the translations the snapshot has for it; a
\* requested key the snapshot does not hold is left out.
C23_ExactlyThePresentKeys ==
  (response.tool = "get_string_translations" /\ response.exit = "Success") =>
    /\ response.partition = response.clientVersion
    /\ DOMAIN response.value.at = PresentKeys
    /\ \A key \in PresentKeys :
         response.value.at[key] = snapshot[response.partition].at[key]

\* the declarations of a flavor, in the order the population reads them:
\* language by language, and line by line within a language
RECURSIVE Declarations(_, _)
Declarations(files, n) ==
  IF n = 0 THEN <<>>
  ELSE Declarations(files, n - 1) \o files[SupportedClientLocales[n]]

\* C24: list_wow_global_string_keys answers with every key of the snapshot
\* of the requested client version exactly once, in the order in which the
\* population first met the keys; for the dataset that declares OKAY and
\* then CANCEL the answer is OKAY, CANCEL.
C24_KeysInInsertionOrder ==
  (response.tool = "list_global_strings" /\ response.exit = "Success") =>
    LET files == remote[response.partition]
    IN /\ response.partition = response.clientVersion
       /\ response.value =
            FirstOccurrences(
              Declarations(files, Len(SupportedClientLocales)))
       /\ NoRepeat(response.value)
       /\ {response.value[n] : n \in DOMAIN response.value} =
            DOMAIN snapshot[response.partition].at
       /\ files = SeededFiles => response.value = <<"OKAY", "CANCEL">>

\* a key is declared again after another key was declared, and the keys
\* are listed
C24_Witness ==
  /\ response.tool = "list_global_strings"
  /\ response.exit = "Success"
  /\ response.value = <<"CANCEL", "OKAY">>
  /\ remote[response.partition]["enUS"] = <<"CANCEL", "OKAY">>
  /\ remote[response.partition]["deDE"] = <<"CANCEL">>

\* C26: a tool call whose clientVersion is given and is not one of
\* mainline, mists, vanilla is rejected when its parameters are decoded,
\* and no partition is read for it.
C26_InvalidVersionRejected ==
  (response.tool # "none"
     /\ response.clientVersion \notin Partitions \cup {NotGiven}) =>
    /\ response.exit = "ParseError"
    /\ response.partition = "none"
    /\ response.value = <<>>

C26_Witness ==
  /\ response.tool = "find_global_apis"
  /\ response.clientVersion = "retail"
  /\ response.exit = "ParseError"

(***************************************************************************)
(* Properties of the network fetches (checked under FetchSpec).            *)
(***************************************************************************)
\* C25: every network fetch is bounded by a timeout: a fetch whose remote
\* never answers successfully ends as a failure, so no fetch is still
\* running (requesting or waiting to retry) after the longest timeout of
\* the program, 15 seconds.
C25_FetchBoundedByTimeout ==
  Running => elapsed <= HTTP_REQUEST_TIMEOUT_DURATION

(***************************************************************************)
(* The schedule after a failure (checked under Spec).                      *)
(***************************************************************************)
\* C27: a population cycle that failed does not stop the periodic
\* schedule: whenever some cycle has failed, the fiber that runs the
\* refreshes is still there to attempt the next one (it sleeps until the
\* next interval or is refreshing), it has not ended.
C27_ScheduleSurvivesFailure ==
  (\E c \in 1..MaxCycles : outcome[c] = "fail") => fiber # "failed"

(***************************************************************************)
(* Properties of the query splitting and of the top matches (checked under *)
(* MergeSpec).                                                             *)
(***************************************************************************)
\* C28: a query without a sub-query (the empty query, or one of separators
\* only) makes searchApiNames return the empty list, and the ranker is not
\* invoked for it; an empty token never becomes a sub-query.
C28_EmptyQueryReturnsNothing ==
  /\ \A n \in DOMAIN SplitQuery(query) : SplitQuery(query)[n] # <<>>
  /\ (\A p \in DOMAIN query : IsSeparator(query[p])) =>
       /\ SplitQuery(query) = <<>>
       /\ queryResults = <<>>
       /\ mergePc = "done" => returned = <<>>

C28_Witness ==
  /\ query = <<" ", "|", "-">>
  /\ mergePc = "done"
  /\ returned = <<>>
  /\ availableGlobals # <<>>

\* C29: for a query with k sub-queries, k at most the number of entries
\* returned at most, the top-ranked key of every sub-query that ranked
\* some key is among the first k entries of the returned list.
C29_TopMatchesSurfaceFirst ==
  (mergePc = "done" /\ Len(queryResults) <= TopResults) =>
    \A q \in DOMAIN queryResults :
      queryResults[q] # <<>> =>
        \E n \in 1..Len(queryResults) :
          n <= Len(returned) /\ returned[n] = queryResults[q][1]

\* two sub-queries with different top-ranked keys, the second of which the
\* first ranks too
C29_Witness ==
  /\ mergePc = "done"
  /\ Len(queryResults) = 2
  /\ Len(queryResults[1]) >= 2
  /\ queryResults[2] # <<>>
  /\ queryResults[1][1] # queryResults[2][1]
  /\ queryResults[1][2] = queryResults[2][1]
  /\ returned[2] = queryResults[2][1]

(***************************************************************************)
(* Properties of a wiki page tool call (checked under PageCallSpec).       *)
(***************************************************************************)
\* C30: a wiki page tool call reads the cache twice under one key; when the
\* key had no entry at the first read, the call has returned with exactly
\* one lookup started for it, and its linkedPages are made from the very
\* value that is its pageContent, whatever other calls, expiry and
\* eviction do in between.
C30_OneLookupPerCall ==
  (pageCall.pc = "done" /\ pageCall.found = "Absent") =>
    /\ pageCall.lookups = 1
    /\ pageCall.links = pageCall.content

====
